---- MODULE Spec2Model ----
(***************************************************************************)
(* PebbleOS settings sync: the Settings BlobDB adapter                     *)
(* (src/fw/services/normal/blob_db/settings_blob_db.c) over the            *)
(* SettingsFile record store, and the prefs sync coordinator               *)
(* (src/fw/shell/normal/prefs_sync.c) over the BlobDB sync engine.         *)
(*                                                                         *)
(* Keys are byte buffers (tuples of character codes) with a caller         *)
(* supplied key_len, values are byte tuples.  Status codes keep their C    *)
(* names as strings.                                                       *)
(***************************************************************************)
EXTENDS Integers, Sequences, FiniteSets, TLC

VARIABLES
  s_initialized,       \* settings_blob_db.c: static bool s_initialized
  file,                \* the shell prefs SettingsFile: records in file order
  s_sync_initialized,  \* prefs_sync.c: static bool s_sync_initialized
  s_is_connected,      \* prefs_sync.c: static bool s_is_connected
  subscribed,          \* number of live subscriptions of prv_connection_handler
  sync_session,        \* sync engine: dirty items the in-flight sync has yet to send
  ret                  \* the last public call: arguments, results, calls it made

vars == <<s_initialized, file, s_sync_initialized, s_is_connected,
          subscribed, sync_session, ret>>

store_vars == <<s_initialized, file>>
coord_vars == <<s_sync_initialized, s_is_connected, subscribed>>

----------------------------------------------------------------------------
(* Bound of the model *)

MaxRecords == 2       \* records the shell prefs file has room for

----------------------------------------------------------------------------
(* Whitelist *)

CAPABILITY_HAS_HEALTH_TRACKING == TRUE

NUL == <<0>>

s_syncable_settings ==
  << <<99,108,111,99,107,50,52,104>>,                                  \* "clock24h"
     <<116,105,109,101,122,111,110,101,83,111,117,114,99,101>>,        \* "timezoneSource"
     <<97,117,116,111,109,97,116,105,99,84,105,109,101,122,111,110,101,73,68>>, \* "automaticTimezoneID"
     <<117,110,105,116,115,68,105,115,116,97,110,99,101>>,             \* "unitsDistance"
     <<116,101,120,116,83,116,121,108,101>>,                           \* "textStyle"
     <<108,105,103,104,116,69,110,97,98,108,101,100>>,                 \* "lightEnabled"
     <<108,105,103,104,116,65,109,98,105,101,110,116,83,101,110,115,111,114,69,110,97,98,108,101,100>>, \* "lightAmbientSensorEnabled"
     <<108,105,103,104,116,84,105,109,101,111,117,116,77,115>>,        \* "lightTimeoutMs"
     <<108,105,103,104,116,73,110,116,101,110,115,105,116,121>>,       \* "lightIntensity"
     <<108,105,103,104,116,77,111,116,105,111,110>>,                   \* "lightMotion"
     <<108,105,103,104,116,65,109,98,105,101,110,116,84,104,114,101,115,104,111,108,100>>, \* "lightAmbientThreshold"
     <<108,97,110,103,69,110,103,108,105,115,104>>,                    \* "langEnglish"
     <<119,97,116,99,104,102,97,99,101>>,                              \* "watchface"
     <<113,108,85,112>>,                                               \* "qlUp"
     <<113,108,68,111,119,110>>,                                       \* "qlDown"
     <<113,108,83,101,108,101,99,116>>,                                \* "qlSelect"
     <<113,108,66,97,99,107>>,                                         \* "qlBack"
     <<113,108,83,101,116,117,112,79,112,101,110,101,100>> >>          \* "qlSetupOpened"
  \o (IF CAPABILITY_HAS_HEALTH_TRACKING
        THEN << <<97,99,116,105,118,105,116,121,80,114,101,102,101,114,101,110,99,101,115>>,  \* "activityPreferences"
                <<97,99,116,105,118,105,116,121,72,101,97,108,116,104,65,112,112,79,112,101,110,101,100>> >> \* "activityHealthAppOpened"
        ELSE << >>)
  \o << <<119,111,114,107,101,114,73,100>> >>                          \* "workerId"

s_num_syncable_settings == Len(s_syncable_settings)

strlen(s) == Len(s)

\* memcmp over the first n bytes: 0 when equal, otherwise the difference of
\* the first pair of bytes that differ
memcmp(a, b, n) ==
  IF \A i \in 1..n : a[i] = b[i]
    THEN 0
    ELSE LET d == CHOOSE i \in 1..n : a[i] # b[i] /\ \A j \in 1..(i-1) : a[j] = b[j]
         IN  a[d] - b[d]

\* a comparison of the name's bytes only, without its terminator
prv_is_syncable_name_bytes(key, key_len) ==
  \E i \in 1..s_num_syncable_settings :
    LET syncable_key == s_syncable_settings[i]
        syncable_len == strlen(s_syncable_settings[i])
    IN  key_len >= syncable_len /\ memcmp(key, syncable_key, syncable_len) = 0

\* the loop returns true at the first whitelist entry that matches
prv_is_syncable(key, key_len) ==
  \E i \in 1..s_num_syncable_settings :
    LET syncable_key == s_syncable_settings[i] \o NUL
        syncable_len == strlen(s_syncable_settings[i]) + 1  \* Include null terminator
    IN  key_len = syncable_len /\ memcmp(key, syncable_key, key_len) = 0

----------------------------------------------------------------------------
(* Keys and values the model's callers use *)

K_clock24h   == <<99,108,111,99,107,50,52,104,0>>       \* "clock24h\0"
K_qlUp       == <<113,108,85,112,0>>                    \* "qlUp\0"
K_btAddress  == <<98,116,65,100,100,114,101,115,115,0>> \* "btAddress\0"

\* keys that local code keeps in the shell prefs file
FileKeys == {K_clock24h, K_qlUp, K_btAddress}

\* (key, key_len) pairs handed to the adapter: the file keys and a whitelisted
\* name passed without its terminator
KeyArgs ==
  { <<k, Len(k)>> : k \in FileKeys } \cup
  { <<K_clock24h, Len(K_clock24h) - 1>> }

\* the writes callers make: a value and what rtc_get_time() returns at the write
Writes == { [val |-> <<1>>, time |-> 0], [val |-> <<0, 0>>, time |-> 1] }

KeyOf(key, key_len) == SubSeq(key, 1, key_len)

----------------------------------------------------------------------------
(* Record Store: SettingsFile *)

OpenErrors == {"E_ERROR"}

FAILED(status) == status \notin {"S_SUCCESS", "S_NO_ACTION_REQUIRED"}

HasKey(f, k) == \E i \in 1..Len(f) : f[i].key = k

RecordOf(f, k) == f[CHOOSE i \in 1..Len(f) : f[i].key = k]

Without(f, k) == SelectSeq(f, LAMBDA r : r.key # k)

\* upsert: the record is rewritten at the end of the file, dirty, stamped t;
\* a new record needs room in the file
settings_file_set(f, k, val, t) ==
  IF ~HasKey(f, k) /\ Len(f) >= MaxRecords
    THEN [status |-> "E_OUT_OF_STORAGE", file |-> f]
    ELSE [status |-> "S_SUCCESS",
          file |-> Append(Without(f, k),
                          [key |-> k, val |-> val, last_modified |-> t, dirty |-> TRUE])]

settings_file_get(f, k) ==
  IF HasKey(f, k)
    THEN [status |-> "S_SUCCESS", val |-> RecordOf(f, k).val]
    ELSE [status |-> "E_DOES_NOT_EXIST", val |-> << >>]

settings_file_get_len(f, k) ==
  IF HasKey(f, k) THEN Len(RecordOf(f, k).val) ELSE 0

settings_file_delete(f, k) ==
  [status |-> "S_SUCCESS", file |-> Without(f, k)]

settings_file_mark_synced(f, k) ==
  IF HasKey(f, k)
    THEN [status |-> "S_SUCCESS",
          file |-> [i \in 1..Len(f) |->
                      IF f[i].key = k THEN [f[i] EXCEPT !.dirty = FALSE] ELSE f[i]]]
    ELSE [status |-> "E_DOES_NOT_EXIST", file |-> f]

----------------------------------------------------------------------------
(* The record of a public call *)

NoKey == << >>

Call(op, key, key_len, status, trace) ==
  [op |-> op, key |-> key, key_len |-> key_len, status |-> status,
   val |-> << >>, val_out |-> << >>, len |-> 0, list |-> << >>,
   is_dirty_out |-> FALSE, trace |-> trace, is_open |-> FALSE, sync |-> << >>,
   sync_db |-> << >>]

----------------------------------------------------------------------------
(* settings_blob_db.c *)

settings_blob_db_init ==
  /\ s_initialized' = TRUE
  /\ ret' = Call("settings_blob_db_init", NoKey, 0, "S_SUCCESS", << >>)
  /\ UNCHANGED <<file, coord_vars, sync_session>>

\* The copy of a rejected key into key_str (lines 107-112) only feeds the log
\* and is left out; callers pass 0 < key_len <= the size of the key buffer.

\* insert without the whitelist gate
insert_result_ungated(initialized, f, key, key_len, val, t, open_status) ==
  IF ~initialized
    THEN [status |-> "E_INTERNAL", file |-> f, trace |-> << >>]
  ELSE IF FAILED(open_status)
    THEN [status |-> open_status, file |-> f, trace |-> <<"open">>]
  ELSE LET w == settings_file_set(f, KeyOf(key, key_len), val, t)
       IN  [status |-> w.status, file |-> w.file, trace |-> <<"open", "set", "close">>]

\* insert that hands the key bytes to settings_file_set as the value
insert_result_key_as_val(initialized, f, key, key_len, val, t, open_status) ==
  IF ~initialized
    THEN [status |-> "E_INTERNAL", file |-> f, trace |-> << >>]
  ELSE IF ~prv_is_syncable(key, key_len)
    THEN [status |-> "E_INVALID_OPERATION", file |-> f, trace |-> << >>]
  ELSE IF FAILED(open_status)
    THEN [status |-> open_status, file |-> f, trace |-> <<"open">>]
  ELSE LET w == settings_file_set(f, KeyOf(key, key_len), KeyOf(key, key_len), t)
       IN  [status |-> w.status, file |-> w.file, trace |-> <<"open", "set", "close">>]

\* insert that marks the record it wrote as synced
insert_result_clean(initialized, f, key, key_len, val, t, open_status) ==
  IF ~initialized
    THEN [status |-> "E_INTERNAL", file |-> f, trace |-> << >>]
  ELSE IF ~prv_is_syncable(key, key_len)
    THEN [status |-> "E_INVALID_OPERATION", file |-> f, trace |-> << >>]
  ELSE IF FAILED(open_status)
    THEN [status |-> open_status, file |-> f, trace |-> <<"open">>]
  ELSE LET w == settings_file_set(f, KeyOf(key, key_len), val, t)
       IN  [status |-> w.status,
            file |-> settings_file_mark_synced(w.file, KeyOf(key, key_len)).file,
            trace |-> <<"open", "set", "close">>]

insert_result(initialized, f, key, key_len, val, t, open_status) ==
  IF ~initialized
    THEN [status |-> "E_INTERNAL", file |-> f, trace |-> << >>]
  ELSE IF ~prv_is_syncable(key, key_len)
    THEN [status |-> "E_INVALID_OPERATION", file |-> f, trace |-> << >>]
  ELSE IF FAILED(open_status)
    THEN [status |-> open_status, file |-> f, trace |-> <<"open">>]
  ELSE LET w == settings_file_set(f, KeyOf(key, key_len), val, t)
       IN  [status |-> w.status, file |-> w.file, trace |-> <<"open", "set", "close">>]

settings_blob_db_insert(key, key_len, val, t, open_status) ==
  LET r == insert_result(s_initialized, file, key, key_len, val, t, open_status)
  IN  /\ file' = r.file
      /\ ret' = [Call("settings_blob_db_insert", key, key_len, r.status, r.trace)
                   EXCEPT !.val = val]
      /\ UNCHANGED <<s_initialized, coord_vars, sync_session>>

settings_blob_db_get_len(key, key_len, open_status) ==
  /\ ret' = IF ~s_initialized
              THEN Call("settings_blob_db_get_len", key, key_len, "E_INTERNAL", << >>)
            ELSE IF FAILED(open_status)
              THEN Call("settings_blob_db_get_len", key, key_len, open_status, <<"open">>)
            ELSE [Call("settings_blob_db_get_len", key, key_len, "LEN",
                       <<"open", "get_len", "close">>)
                    EXCEPT !.len = settings_file_get_len(file, KeyOf(key, key_len))]
  /\ UNCHANGED <<store_vars, coord_vars, sync_session>>

\* read that checks the whitelist as insert and delete do
settings_blob_db_read_gated(key, key_len, open_status) ==
  /\ ret' = IF ~s_initialized
              THEN Call("settings_blob_db_read", key, key_len, "E_INTERNAL", << >>)
            ELSE IF ~prv_is_syncable(key, key_len)
              THEN Call("settings_blob_db_read", key, key_len, "E_INVALID_OPERATION", << >>)
            ELSE IF FAILED(open_status)
              THEN Call("settings_blob_db_read", key, key_len, open_status, <<"open">>)
            ELSE LET g == settings_file_get(file, KeyOf(key, key_len))
                 IN  [Call("settings_blob_db_read", key, key_len, g.status,
                           <<"open", "get", "close">>)
                        EXCEPT !.val_out = g.val]
  /\ UNCHANGED <<store_vars, coord_vars, sync_session>>

settings_blob_db_read(key, key_len, open_status) ==
  /\ ret' = IF ~s_initialized
              THEN Call("settings_blob_db_read", key, key_len, "E_INTERNAL", << >>)
            ELSE IF FAILED(open_status)
              THEN Call("settings_blob_db_read", key, key_len, open_status, <<"open">>)
            ELSE LET g == settings_file_get(file, KeyOf(key, key_len))
                 IN  [Call("settings_blob_db_read", key, key_len, g.status,
                           <<"open", "get", "close">>)
                        EXCEPT !.val_out = g.val]
  /\ UNCHANGED <<store_vars, coord_vars, sync_session>>

\* delete that opens the file before it checks the whitelist and deletes anyway
delete_result_ungated(initialized, f, key, key_len, open_status) ==
  IF ~initialized
    THEN [status |-> "E_INTERNAL", file |-> f, trace |-> << >>]
  ELSE IF FAILED(open_status)
    THEN [status |-> open_status, file |-> f, trace |-> <<"open">>]
  ELSE LET d == settings_file_delete(f, KeyOf(key, key_len))
       IN  [status |-> IF prv_is_syncable(key, key_len)
                         THEN d.status ELSE "E_INVALID_OPERATION",
            file |-> d.file, trace |-> <<"open", "delete", "close">>]

delete_result(initialized, f, key, key_len, open_status) ==
  IF ~initialized
    THEN [status |-> "E_INTERNAL", file |-> f, trace |-> << >>]
  ELSE IF ~prv_is_syncable(key, key_len)
    THEN [status |-> "E_INVALID_OPERATION", file |-> f, trace |-> << >>]
  ELSE IF FAILED(open_status)
    THEN [status |-> open_status, file |-> f, trace |-> <<"open">>]
  ELSE LET d == settings_file_delete(f, KeyOf(key, key_len))
       IN  [status |-> d.status, file |-> d.file, trace |-> <<"open", "delete", "close">>]

settings_blob_db_delete(key, key_len, open_status) ==
  LET r == delete_result(s_initialized, file, key, key_len, open_status)
  IN  /\ file' = r.file
      /\ ret' = Call("settings_blob_db_delete", key, key_len, r.status, r.trace)
      /\ UNCHANGED <<s_initialized, coord_vars, sync_session>>

\* Dirty list management

\* info: the record being visited; ctx.dirty_list: the items linked so far
\* (NULL is the empty list, dirty_list_tail its last item)
\* the callback without the whitelist check
prv_build_dirty_list_callback_unfiltered(info, ctx) ==
  IF ~info.dirty
    THEN [continue |-> TRUE, ctx |-> ctx]
    ELSE [continue |-> TRUE,
          ctx |-> [dirty_list |-> Append(ctx.dirty_list,
                                         [last_updated |-> info.last_modified,
                                          key_len |-> Len(info.key),
                                          key |-> info.key])]]

prv_build_dirty_list_callback(info, ctx) ==
  IF ~info.dirty
    THEN [continue |-> TRUE, ctx |-> ctx]
    ELSE LET key_buf == info.key
             key_len == Len(info.key)
         IN  IF ~prv_is_syncable(key_buf, key_len)
               THEN [continue |-> TRUE, ctx |-> ctx]
               ELSE LET item == [last_updated |-> info.last_modified,
                                 key_len |-> key_len,
                                 key |-> SubSeq(key_buf, 1, key_len)]
                    IN  [continue |-> TRUE,
                         ctx |-> [dirty_list |-> Append(ctx.dirty_list, item)]]

\* the callback without the whitelist check
is_dirty_callback_unfiltered(info, ctx) ==
  IF ~info.dirty
    THEN [continue |-> TRUE, ctx |-> ctx]
    ELSE [continue |-> FALSE, ctx |-> [found_dirty |-> TRUE]]

\* the callback without the dirty check
is_dirty_callback_any_syncable(info, ctx) ==
  IF prv_is_syncable(info.key, Len(info.key))
    THEN [continue |-> FALSE, ctx |-> [found_dirty |-> TRUE]]
    ELSE [continue |-> TRUE, ctx |-> ctx]

\* the callback that stops at the first dirty record, whitelisted or not
is_dirty_callback_first_dirty(info, ctx) ==
  IF ~info.dirty
    THEN [continue |-> TRUE, ctx |-> ctx]
    ELSE [continue |-> FALSE,
          ctx |-> [found_dirty |-> prv_is_syncable(info.key, Len(info.key))]]

is_dirty_callback(info, ctx) ==
  IF ~info.dirty
    THEN [continue |-> TRUE, ctx |-> ctx]
    ELSE LET key_buf == info.key
             key_len == Len(info.key)
         IN  IF prv_is_syncable(key_buf, key_len)
               THEN [continue |-> FALSE, ctx |-> [found_dirty |-> TRUE]]
               ELSE [continue |-> TRUE, ctx |-> ctx]

\* a call through the callback pointer handed to settings_file_each
SettingsFileEachCallback(cb, info, ctx) ==
  IF cb = "prv_build_dirty_list_callback"
    THEN prv_build_dirty_list_callback(info, ctx)
    ELSE is_dirty_callback(info, ctx)

\* visits the records from the i-th on, in file order, until the callback
\* returns false
RECURSIVE settings_file_each_from(_, _, _, _)
settings_file_each_from(i, f, cb, ctx) ==
  IF i > Len(f)
    THEN ctx
    ELSE LET r == SettingsFileEachCallback(cb, f[i], ctx)
         IN  IF r.continue THEN settings_file_each_from(i + 1, f, cb, r.ctx) ELSE r.ctx

settings_file_each(f, cb, context) == settings_file_each_from(1, f, cb, context)

\* get_dirty_list without the s_initialized guard
get_dirty_list_result_unguarded(initialized, f, open_status) ==
  IF FAILED(open_status)
    THEN [list |-> << >>, trace |-> <<"open">>]
  ELSE [list |-> settings_file_each(f, "prv_build_dirty_list_callback",
                                    [dirty_list |-> << >>]).dirty_list,
        trace |-> <<"open", "each", "close">>]

get_dirty_list_result(initialized, f, open_status) ==
  IF ~initialized
    THEN [list |-> << >>, trace |-> << >>]
  ELSE IF FAILED(open_status)
    THEN [list |-> << >>, trace |-> <<"open">>]
  ELSE [list |-> settings_file_each(f, "prv_build_dirty_list_callback",
                                    [dirty_list |-> << >>]).dirty_list,
        trace |-> <<"open", "each", "close">>]

\* get_dirty_list that clears the dirty flag of the records it lists
settings_blob_db_get_dirty_list_consuming(open_status) ==
  LET r == get_dirty_list_result(s_initialized, file, open_status)
  IN  /\ ret' = [Call("settings_blob_db_get_dirty_list", NoKey, 0,
                      IF r.list = << >> THEN "NULL" ELSE "LIST", r.trace)
                   EXCEPT !.list = r.list]
      /\ file' = [i \in 1..Len(file) |->
                   IF \E j \in 1..Len(r.list) : r.list[j].key = file[i].key
                     THEN [file[i] EXCEPT !.dirty = FALSE] ELSE file[i]]
      /\ UNCHANGED <<s_initialized, coord_vars, sync_session>>

settings_blob_db_get_dirty_list(open_status) ==
  LET r == get_dirty_list_result(s_initialized, file, open_status)
  IN  /\ ret' = [Call("settings_blob_db_get_dirty_list", NoKey, 0,
                      IF r.list = << >> THEN "NULL" ELSE "LIST", r.trace)
                   EXCEPT !.list = r.list]
      /\ UNCHANGED <<store_vars, coord_vars, sync_session>>

\* mark_synced that closes the file without marking the record
mark_synced_result_unmarked(initialized, f, key, key_len, open_status) ==
  IF ~initialized
    THEN [status |-> "E_INTERNAL", file |-> f, trace |-> << >>]
  ELSE IF FAILED(open_status)
    THEN [status |-> open_status, file |-> f, trace |-> <<"open">>]
  ELSE [status |-> settings_file_mark_synced(f, KeyOf(key, key_len)).status,
        file |-> f, trace |-> <<"open", "close">>]

\* mark_synced that checks the whitelist as insert and delete do
mark_synced_result_gated(initialized, f, key, key_len, open_status) ==
  IF ~initialized
    THEN [status |-> "E_INTERNAL", file |-> f, trace |-> << >>]
  ELSE IF ~prv_is_syncable(key, key_len)
    THEN [status |-> "E_INVALID_OPERATION", file |-> f, trace |-> << >>]
  ELSE IF FAILED(open_status)
    THEN [status |-> open_status, file |-> f, trace |-> <<"open">>]
  ELSE LET m == settings_file_mark_synced(f, KeyOf(key, key_len))
       IN  [status |-> m.status, file |-> m.file,
            trace |-> <<"open", "mark_synced", "close">>]

mark_synced_result(initialized, f, key, key_len, open_status) ==
  IF ~initialized
    THEN [status |-> "E_INTERNAL", file |-> f, trace |-> << >>]
  ELSE IF FAILED(open_status)
    THEN [status |-> open_status, file |-> f, trace |-> <<"open">>]
  ELSE LET m == settings_file_mark_synced(f, KeyOf(key, key_len))
       IN  [status |-> m.status, file |-> m.file,
            trace |-> <<"open", "mark_synced", "close">>]

settings_blob_db_mark_synced(key, key_len, open_status) ==
  LET r == mark_synced_result(s_initialized, file, key, key_len, open_status)
  IN  /\ file' = r.file
      /\ ret' = Call("settings_blob_db_mark_synced", key, key_len, r.status, r.trace)
      /\ UNCHANGED <<s_initialized, coord_vars, sync_session>>

\* is_dirty that returns as soon as a dirty record was found, file still open
is_dirty_result_leak(initialized, f, open_status) ==
  IF ~initialized
    THEN [status |-> "E_INTERNAL", is_dirty_out |-> FALSE, trace |-> << >>]
  ELSE IF FAILED(open_status)
    THEN [status |-> open_status, is_dirty_out |-> FALSE, trace |-> <<"open">>]
  ELSE LET ctx == settings_file_each(f, "is_dirty_callback", [found_dirty |-> FALSE])
       IN  [status |-> "S_SUCCESS", is_dirty_out |-> ctx.found_dirty,
            trace |-> IF ctx.found_dirty
                        THEN <<"open", "each">> ELSE <<"open", "each", "close">>]

is_dirty_result(initialized, f, open_status) ==
  IF ~initialized
    THEN [status |-> "E_INTERNAL", is_dirty_out |-> FALSE, trace |-> << >>]
  ELSE IF FAILED(open_status)
    THEN [status |-> open_status, is_dirty_out |-> FALSE, trace |-> <<"open">>]
  ELSE [status |-> "S_SUCCESS",
        is_dirty_out |-> settings_file_each(f, "is_dirty_callback",
                                            [found_dirty |-> FALSE]).found_dirty,
        trace |-> <<"open", "each", "close">>]

settings_blob_db_is_dirty(open_status) ==
  LET r == is_dirty_result(s_initialized, file, open_status)
  IN  /\ ret' = [Call("settings_blob_db_is_dirty", NoKey, 0, r.status, r.trace)
                   EXCEPT !.is_dirty_out = r.is_dirty_out]
      /\ UNCHANGED <<store_vars, coord_vars, sync_session>>

\* flush that opens and closes the file
settings_blob_db_flush_opening ==
  /\ ret' = IF ~s_initialized
              THEN Call("settings_blob_db_flush", NoKey, 0, "E_INTERNAL", << >>)
              ELSE Call("settings_blob_db_flush", NoKey, 0, "S_SUCCESS", <<"open", "close">>)
  /\ UNCHANGED <<store_vars, coord_vars, sync_session>>

settings_blob_db_flush ==
  /\ ret' = Call("settings_blob_db_flush", NoKey, 0,
                 IF ~s_initialized THEN "E_INTERNAL" ELSE "S_SUCCESS", << >>)
  /\ UNCHANGED <<store_vars, coord_vars, sync_session>>

----------------------------------------------------------------------------
(* Local code *)

\* shell prefs code writes a pref straight into the SettingsFile
prefs_local_write(key, val, t) ==
  LET w == settings_file_set(file, key, val, t)
  IN  /\ file' = w.file
      /\ ret' = [Call("prefs_local_write", key, Len(key), w.status,
                      <<"open", "set", "close">>) EXCEPT !.val = val]
      /\ UNCHANGED <<s_initialized, coord_vars, sync_session>>

----------------------------------------------------------------------------
(* BlobDB sync engine, for BlobDBIdSettings *)

\* an in-flight sync holds the dirty items it still has to send; no sync is
\* in flight when it holds none
blob_db_sync_db(session, initialized, f, open_status, engine_error) ==
  IF session # << >>
    THEN [status |-> "E_BUSY", session |-> session]
  ELSE IF engine_error
    THEN [status |-> "E_ERROR", session |-> session]
  ELSE LET dirty_list == get_dirty_list_result(initialized, f, open_status).list
       IN  IF dirty_list = << >>
             THEN [status |-> "S_NO_ACTION_REQUIRED", session |-> session]
             ELSE [status |-> "S_SUCCESS", session |-> dirty_list]

\* the phone acknowledges the item at the head of the in-flight sync
blob_db_sync_next(open_status) ==
  /\ sync_session # << >>
  /\ LET item == Head(sync_session)
         r == mark_synced_result(s_initialized, file, item.key, item.key_len, open_status)
     IN  /\ file' = r.file
         /\ ret' = Call("blob_db_sync_next", item.key, item.key_len, r.status, r.trace)
  /\ sync_session' = Tail(sync_session)
  /\ UNCHANGED <<s_initialized, coord_vars>>

\* the in-flight sync times out or the session closes
blob_db_sync_cancel ==
  /\ sync_session # << >>
  /\ sync_session' = << >>
  /\ ret' = Call("blob_db_sync_cancel", NoKey, 0, "S_SUCCESS", << >>)
  /\ UNCHANGED <<store_vars, coord_vars>>

----------------------------------------------------------------------------
(* prefs_sync.c *)

BlobDBIdSettings == "BlobDBIdSettings"

\* a handler that records the connection and never starts a sync
connection_handler_result_silent(connected, session, initialized, f, open_status, engine_error) ==
  [is_connected |-> connected, sync |-> << >>, sync_db |-> << >>, session |-> session]

\* the handler's steps in order: s_is_connected is assigned, then the sync
\* engine is called; each call is kept with the database id it was given and
\* the connection state at the moment of the call
connection_handler_result(connected, session, initialized, f, open_status, engine_error) ==
  LET is_connected == connected
  IN  IF connected
        THEN LET r == blob_db_sync_db(session, initialized, f, open_status, engine_error)
             IN  [is_connected |-> is_connected, sync |-> <<r.status>>,
                  sync_db |-> <<[db_id |-> BlobDBIdSettings, is_connected |-> is_connected]>>,
                  session |-> r.session]
        ELSE [is_connected |-> is_connected, sync |-> << >>, sync_db |-> << >>,
              session |-> session]

prv_connection_handler(connected, open_status, engine_error) ==
  /\ subscribed > 0
  /\ LET r == connection_handler_result(connected, sync_session, s_initialized, file,
                                        open_status, engine_error)
     IN  /\ s_is_connected' = r.is_connected
         /\ sync_session' = r.session
         /\ ret' = [Call("prv_connection_handler", NoKey, 0, "void", << >>)
                      EXCEPT !.sync = r.sync, !.sync_db = r.sync_db,
                             !.is_open = connected]
  /\ UNCHANGED <<store_vars, s_sync_initialized, subscribed>>

\* init without the already-initialized check
prefs_sync_init_unchecked ==
  /\ subscribed' = subscribed + 1
  /\ s_is_connected' = FALSE
  /\ s_sync_initialized' = TRUE
  /\ ret' = Call("prefs_sync_init", NoKey, 0, "void", << >>)
  /\ UNCHANGED <<store_vars, sync_session>>

prefs_sync_init ==
  /\ IF s_sync_initialized
       THEN UNCHANGED coord_vars
       ELSE /\ subscribed' = subscribed + 1
            /\ s_is_connected' = FALSE
            /\ s_sync_initialized' = TRUE
  /\ ret' = Call("prefs_sync_init", NoKey, 0, "void", << >>)
  /\ UNCHANGED <<store_vars, sync_session>>

\* deinit that leaves the connection state as it is
prefs_sync_deinit_keeping_connection ==
  /\ IF ~s_sync_initialized
       THEN UNCHANGED coord_vars
       ELSE /\ subscribed' = subscribed - 1
            /\ s_sync_initialized' = FALSE
            /\ s_is_connected' = s_is_connected
  /\ ret' = Call("prefs_sync_deinit", NoKey, 0, "void", << >>)
  /\ UNCHANGED <<store_vars, sync_session>>

prefs_sync_deinit ==
  /\ IF ~s_sync_initialized
       THEN UNCHANGED coord_vars
       ELSE /\ subscribed' = subscribed - 1
            /\ s_sync_initialized' = FALSE
            /\ s_is_connected' = FALSE
  /\ ret' = Call("prefs_sync_deinit", NoKey, 0, "void", << >>)
  /\ UNCHANGED <<store_vars, sync_session>>

\* trigger without the connection check
trigger_result_unconnected(sync_initialized, is_connected, session, initialized, f, open_status, engine_error) ==
  IF ~sync_initialized
    THEN [sync |-> << >>, sync_db |-> << >>, session |-> session]
  ELSE LET r == blob_db_sync_db(session, initialized, f, open_status, engine_error)
       IN  [sync |-> <<r.status>>,
            sync_db |-> <<[db_id |-> BlobDBIdSettings, is_connected |-> is_connected]>>,
            session |-> r.session]

\* trigger that calls the sync engine again when the first call did not start
\* a sync
trigger_result_retry(sync_initialized, is_connected, session, initialized, f, open_status, engine_error) ==
  IF ~sync_initialized \/ ~is_connected
    THEN [sync |-> << >>, sync_db |-> << >>, session |-> session]
  ELSE LET r == blob_db_sync_db(session, initialized, f, open_status, engine_error)
           call == [db_id |-> BlobDBIdSettings, is_connected |-> is_connected]
       IN  IF r.status = "S_SUCCESS"
             THEN [sync |-> <<r.status>>, sync_db |-> <<call>>, session |-> r.session]
             ELSE LET q == blob_db_sync_db(r.session, initialized, f, open_status, FALSE)
                  IN  [sync |-> <<r.status, q.status>>, sync_db |-> <<call, call>>,
                       session |-> q.session]

trigger_result(sync_initialized, is_connected, session, initialized, f, open_status, engine_error) ==
  IF ~sync_initialized
    THEN [sync |-> << >>, sync_db |-> << >>, session |-> session]
  ELSE IF ~is_connected
    THEN [sync |-> << >>, sync_db |-> << >>, session |-> session]
  ELSE LET r == blob_db_sync_db(session, initialized, f, open_status, engine_error)
       IN  [sync |-> <<r.status>>,
            sync_db |-> <<[db_id |-> BlobDBIdSettings, is_connected |-> is_connected]>>,
            session |-> r.session]

prefs_sync_trigger(open_status, engine_error) ==
  LET r == trigger_result(s_sync_initialized, s_is_connected, sync_session,
                          s_initialized, file, open_status, engine_error)
  IN  /\ sync_session' = r.session
      /\ ret' = [Call("prefs_sync_trigger", NoKey, 0, "void", << >>)
                   EXCEPT !.sync = r.sync, !.sync_db = r.sync_db]
      /\ UNCHANGED <<store_vars, coord_vars>>

----------------------------------------------------------------------------
(* Specifications *)

OpenStatus == {"S_SUCCESS"} \cup OpenErrors

Init ==
  /\ s_initialized = FALSE
  /\ file = << >>
  /\ s_sync_initialized = FALSE
  /\ s_is_connected = FALSE
  /\ subscribed = 0
  /\ sync_session = << >>
  /\ ret = Call("boot", NoKey, 0, "S_SUCCESS", << >>)

\* the store's entry points, and local code, over given sets of inputs
StoreCalls(KA, W, OS) ==
  \/ settings_blob_db_init
  \/ \E ka \in KA, w \in W, os \in OS :
       settings_blob_db_insert(ka[1], ka[2], w.val, w.time, os)
  \/ \E ka \in KA, os \in OS : settings_blob_db_get_len(ka[1], ka[2], os)
  \/ \E ka \in KA, os \in OS : settings_blob_db_read(ka[1], ka[2], os)
  \/ \E ka \in KA, os \in OS : settings_blob_db_delete(ka[1], ka[2], os)
  \/ \E os \in OS : settings_blob_db_get_dirty_list(os)
  \/ \E ka \in KA, os \in OS : settings_blob_db_mark_synced(ka[1], ka[2], os)
  \/ \E os \in OS : settings_blob_db_is_dirty(os)
  \/ settings_blob_db_flush
  \/ \E ka \in KA, w \in W :
       ka[1] \in FileKeys /\ ka[2] = Len(ka[1]) /\ prefs_local_write(ka[1], w.val, w.time)

StoreNext == StoreCalls(KeyArgs, Writes, OpenStatus)

CoordNext ==
  \/ prefs_sync_init
  \/ prefs_sync_deinit
  \/ \E connected \in BOOLEAN, os \in OpenStatus, err \in BOOLEAN :
       prv_connection_handler(connected, os, err)
  \/ \E os \in OpenStatus, err \in BOOLEAN : prefs_sync_trigger(os, err)
  \/ \E os \in OpenStatus : blob_db_sync_next(os)
  \/ blob_db_sync_cancel

\* the whole system; the store is driven with one of the writes
Next == StoreCalls(KeyArgs, {[val |-> <<1>>, time |-> 0]}, OpenStatus) \/ CoordNext

Spec == Init /\ [][Next]_vars

StoreSpec == Init /\ [][StoreNext]_vars

\* (key, key_len) pairs for the whitelist check: for each whitelisted name, the
\* key the adapter accepts and the near misses
SyncableArgs ==
  { <<s_syncable_settings[i] \o NUL, Len(s_syncable_settings[i]) + 1>> :
      i \in 1..s_num_syncable_settings }

UnterminatedArgs ==
  { <<s_syncable_settings[i], Len(s_syncable_settings[i])>> :
      i \in 1..s_num_syncable_settings } \cup
  { <<s_syncable_settings[i] \o NUL, Len(s_syncable_settings[i])>> :
      i \in 1..s_num_syncable_settings }

PrefixArgs ==
  { <<SubSeq(s_syncable_settings[i], 1, Len(s_syncable_settings[i]) - 1) \o NUL,
      Len(s_syncable_settings[i])>> : i \in 1..s_num_syncable_settings }

ExtensionArgs ==
  { <<s_syncable_settings[i] \o <<120>> \o NUL, Len(s_syncable_settings[i]) + 2>> :
      i \in 1..s_num_syncable_settings } \cup
  { <<s_syncable_settings[i] \o NUL \o NUL, Len(s_syncable_settings[i]) + 2>> :
      i \in 1..s_num_syncable_settings }

NoLengthArgs ==
  { <<s_syncable_settings[i] \o NUL, n>> :
      i \in 1..s_num_syncable_settings, n \in {0, -1} }

WhitelistArgs ==
  SyncableArgs \cup UnterminatedArgs \cup PrefixArgs \cup ExtensionArgs \cup NoLengthArgs

\* one evaluation of the whitelist check
IsSyncable(key, key_len) ==
  /\ ret' = Call("prv_is_syncable", key, key_len,
                 IF prv_is_syncable(key, key_len) THEN "true" ELSE "false", << >>)
  /\ UNCHANGED <<store_vars, coord_vars, sync_session>>

\* the whitelist check, evaluated while the store is initialized and the file
\* is written
WhitelistNext ==
  \/ \E ka \in WhitelistArgs : IsSyncable(ka[1], ka[2])
  \/ settings_blob_db_init
  \/ \E k \in FileKeys : prefs_local_write(k, <<1>>, 0)

WhitelistSpec == Init /\ [][WhitelistNext]_vars

----------------------------------------------------------------------------
(* What the properties speak of *)

\* the whitelist as a set of keys: each syncable name with its terminator
WhitelistKeys ==
  { s_syncable_settings[i] \o NUL : i \in 1..s_num_syncable_settings }

InWhitelist(key, key_len) ==
  key_len > 0 /\ key_len <= Len(key) /\ SubSeq(key, 1, key_len) \in WhitelistKeys

Records(f) == { f[i] : i \in 1..Len(f) }

\* keys of the records that are both dirty and whitelisted
DirtyWhitelisted(f) ==
  { r.key : r \in { q \in Records(f) : q.dirty /\ q.key \in WhitelistKeys } }

ListKeys(list) == { list[i].key : i \in 1..Len(list) }

\* what read and get_dirty_list give on a file that opens
ReadOf(f, key, key_len) == settings_file_get(f, KeyOf(key, key_len))
DirtyListOf(f) == get_dirty_list_result(TRUE, f, "S_SUCCESS").list

Opened(r) == Len(r.trace) > 1

----------------------------------------------------------------------------
(* C1: after init(), insert(k, v) of a key k outside the whitelist returns    *)
(* E_INVALID_OPERATION and leaves the Record Store exactly as it was: the  *)
(* file is not opened, no record is created or changed, and read(k) and    *)
(* get_dirty_list() give what they gave before the call.                   *)
C1_RejectedInsert ==
  [][ (/\ ret'.op = "settings_blob_db_insert"
       /\ s_initialized
       /\ ~InWhitelist(ret'.key, ret'.key_len))
      => (/\ ret'.status = "E_INVALID_OPERATION"
          /\ ret'.trace = << >>
          /\ file' = file
          /\ ReadOf(file', ret'.key, ret'.key_len) = ReadOf(file, ret'.key, ret'.key_len)
          /\ DirtyListOf(file') = DirtyListOf(file)) ]_vars

\* insert("btAddress") was rejected while local code keeps a btAddress record
C1_Witness ==
  /\ ret.op = "settings_blob_db_insert"
  /\ ret.status = "E_INVALID_OPERATION"
  /\ ret.key = K_btAddress
  /\ HasKey(file, K_btAddress)
  /\ RecordOf(file, K_btAddress).val # ret.val

(* C2: after init(), delete(k) of a key k outside the whitelist returns       *)
(* E_INVALID_OPERATION without opening the Record Store: a record that     *)
(* local code stored under k is still there, same value, same dirty flag.  *)
C2_RejectedDelete ==
  [][ (/\ ret'.op = "settings_blob_db_delete"
       /\ s_initialized
       /\ ~InWhitelist(ret'.key, ret'.key_len))
      => (/\ ret'.status = "E_INVALID_OPERATION"
          /\ ret'.trace = << >>
          /\ file' = file) ]_vars

\* delete("btAddress") was rejected and the dirty btAddress record is in the file
C2_Witness ==
  /\ ret.op = "settings_blob_db_delete"
  /\ ret.status = "E_INVALID_OPERATION"
  /\ ret.key = K_btAddress
  /\ HasKey(file, K_btAddress)
  /\ RecordOf(file, K_btAddress).dirty

(* C3: when get_dirty_list() runs on an initialized store whose file opens, *)
(* the list holds exactly the records that are dirty and whitelisted: each *)
(* such record once, with its key and last-modified time, and no record    *)
(* that is clean or outside the whitelist.                                 *)
C3_DirtyListExact ==
  (ret.op = "settings_blob_db_get_dirty_list" /\ s_initialized /\ Opened(ret))
    => /\ ListKeys(ret.list) = DirtyWhitelisted(file)
       /\ Len(ret.list) = Cardinality(DirtyWhitelisted(file))
       /\ \A i \in 1..Len(ret.list) :
            /\ ret.list[i].key_len = Len(ret.list[i].key)
            /\ ret.list[i].last_updated = RecordOf(file, ret.list[i].key).last_modified

\* a list of one item was returned while a dirty record outside the whitelist
\* is in the file
C3_Witness ==
  /\ ret.op = "settings_blob_db_get_dirty_list"
  /\ Len(ret.list) = 1
  /\ \E r \in Records(file) : r.dirty /\ r.key \notin WhitelistKeys

(* C4: for a whitelisted key k and a value v, a successful insert(k, v)      *)
(* leaves a record that read(k) returns as v and that get_dirty_list()     *)
(* lists: the insert stores v under k marked dirty, and a read(k) or a     *)
(* get_dirty_list() made right after it (file opening) gives v and has k,  *)
(* whether or not k was there, or was marked synced, before.               *)
C4_InsertThenRead ==
  [][ /\ (ret'.op = "settings_blob_db_insert" /\ ret'.status = "S_SUCCESS")
          => /\ ReadOf(file', ret'.key, ret'.key_len)
                  = [status |-> "S_SUCCESS", val |-> ret'.val]
             /\ KeyOf(ret'.key, ret'.key_len) \in ListKeys(DirtyListOf(file'))
      /\ (/\ ret.op = "settings_blob_db_insert" /\ ret.status = "S_SUCCESS"
          /\ ret'.op = "settings_blob_db_read" /\ Opened(ret')
          /\ ret'.key = ret.key /\ ret'.key_len = ret.key_len)
          => (ret'.status = "S_SUCCESS" /\ ret'.val_out = ret.val)
      /\ (/\ ret.op = "settings_blob_db_insert" /\ ret.status = "S_SUCCESS"
          /\ ret'.op = "settings_blob_db_get_dirty_list" /\ Opened(ret'))
          => KeyOf(ret.key, ret.key_len) \in ListKeys(ret'.list) ]_vars

\* insert("clock24h", <<0, 0>>) succeeded next to another record
C4_Witness ==
  /\ ret.op = "settings_blob_db_insert"
  /\ ret.status = "S_SUCCESS"
  /\ ret.key = K_clock24h
  /\ ret.val = <<0, 0>>
  /\ Len(file) = 2
  /\ RecordOf(file, K_clock24h).dirty

(* C5: on an initialized store whose file opens, is_dirty() succeeds and     *)
(* reports true if and only if some record is both whitelisted and dirty:  *)
(* dirty records outside the whitelist do not make it true, and stopping   *)
(* at the first match does not make it false.                              *)
C5_IsDirtyExact ==
  (ret.op = "settings_blob_db_is_dirty" /\ s_initialized /\ Opened(ret))
    => /\ ret.status = "S_SUCCESS"
       /\ ret.is_dirty_out = (DirtyWhitelisted(file) # {})

\* is_dirty() reported true for a file whose first record is dirty and outside
\* the whitelist and whose second is dirty and whitelisted
C5_Witness ==
  /\ ret.op = "settings_blob_db_is_dirty"
  /\ ret.is_dirty_out
  /\ Len(file) = 2
  /\ file[1].dirty /\ file[1].key \notin WhitelistKeys
  /\ file[2].dirty /\ file[2].key \in WhitelistKeys

(* C6: a successful mark_synced(k) takes k, and only k, off the dirty list:  *)
(* the keys get_dirty_list() returns afterwards are those it returned      *)
(* before without k, and a key that is off the list comes back on it only  *)
(* by an insert or a local write of that key.                              *)
C6_MarkSyncedRemovesOnlyK ==
  [][ /\ (ret'.op = "settings_blob_db_mark_synced" /\ ret'.status = "S_SUCCESS")
          => ListKeys(DirtyListOf(file'))
               = ListKeys(DirtyListOf(file)) \ {KeyOf(ret'.key, ret'.key_len)}
      /\ (/\ ret.op = "settings_blob_db_mark_synced" /\ ret.status = "S_SUCCESS"
          /\ ret'.op = "settings_blob_db_get_dirty_list")
          => KeyOf(ret.key, ret.key_len) \notin ListKeys(ret'.list)
      /\ (file' # file)
          => LET added == ListKeys(DirtyListOf(file')) \ ListKeys(DirtyListOf(file))
             IN  (added # {})
                   => /\ ret'.op \in {"settings_blob_db_insert", "prefs_local_write"}
                      /\ added = {KeyOf(ret'.key, ret'.key_len)} ]_vars

\* mark_synced("clock24h") succeeded while "qlUp" is dirty
C6_Witness ==
  /\ ret.op = "settings_blob_db_mark_synced"
  /\ ret.status = "S_SUCCESS"
  /\ ret.key = K_clock24h
  /\ ~RecordOf(file, K_clock24h).dirty
  /\ K_qlUp \in DirtyWhitelisted(file)

(* C7, as stated: an is_dirty() that follows a successful mark_synced(k),    *)
(* with k not rewritten in between, reports false.                         *)
C7_IsDirtyFalseAfterMark ==
  [][ (/\ ret.op = "settings_blob_db_mark_synced" /\ ret.status = "S_SUCCESS"
       /\ ret'.op = "settings_blob_db_is_dirty" /\ ret'.status = "S_SUCCESS")
      => ret'.is_dirty_out = FALSE ]_vars

(* C7, amended: after a successful mark_synced(k), with k not rewritten, k   *)
(* no longer makes the store dirty: is_dirty() reports true exactly when a *)
(* whitelisted record other than k is dirty, and false otherwise.          *)
C7_IsDirtyAfterMark ==
  [][ /\ (ret'.op = "settings_blob_db_mark_synced" /\ ret'.status = "S_SUCCESS")
          => /\ KeyOf(ret'.key, ret'.key_len) \notin DirtyWhitelisted(file')
             /\ is_dirty_result(s_initialized, file', "S_SUCCESS").is_dirty_out
                  = (DirtyWhitelisted(file) \ {KeyOf(ret'.key, ret'.key_len)} # {})
      /\ (/\ ret.op = "settings_blob_db_mark_synced" /\ ret.status = "S_SUCCESS"
          /\ ret'.op = "settings_blob_db_is_dirty" /\ ret'.status = "S_SUCCESS")
          => ret'.is_dirty_out
               = (DirtyWhitelisted(file) \ {KeyOf(ret.key, ret.key_len)} # {}) ]_vars

\* is_dirty() reported false over a "clock24h" record that mark_synced left
\* clean, next to a dirty record outside the whitelist
C7_Witness ==
  /\ ret.op = "settings_blob_db_is_dirty"
  /\ ret.status = "S_SUCCESS"
  /\ ~ret.is_dirty_out
  /\ HasKey(file, K_clock24h) /\ ~RecordOf(file, K_clock24h).dirty
  /\ HasKey(file, K_btAddress) /\ RecordOf(file, K_btAddress).dirty

StoreOps ==
  {"settings_blob_db_insert", "settings_blob_db_read", "settings_blob_db_get_len",
   "settings_blob_db_delete", "settings_blob_db_get_dirty_list",
   "settings_blob_db_mark_synced", "settings_blob_db_is_dirty",
   "settings_blob_db_flush"}

(* C8, as stated: every store operation called before init() fails with     *)
(* E_INTERNAL and neither opens nor changes the Record Store.              *)
C8_AllFailInternal ==
  [][ (~s_initialized /\ ret'.op \in StoreOps)
      => (/\ ret'.status = "E_INTERNAL"
          /\ ret'.trace = << >>
          /\ file' = file) ]_vars

(* C8, amended: before init(), insert, read, get_len, delete, mark_synced,   *)
(* is_dirty and flush fail with E_INTERNAL and get_dirty_list returns NULL *)
(* (the empty list, it has no status to return); none of them opens or     *)
(* changes the Record Store.                                               *)
C8_BeforeInit ==
  [][ (~s_initialized /\ ret'.op \in StoreOps)
      => (/\ IF ret'.op = "settings_blob_db_get_dirty_list"
                THEN ret'.status = "NULL" /\ ret'.list = << >>
                ELSE ret'.status = "E_INTERNAL"
          /\ ret'.trace = << >>
          /\ ret'.val_out = << >>
          /\ file' = file) ]_vars

\* get_dirty_list() returned NULL before init() although a whitelisted record
\* written by local code is dirty
C8_Witness ==
  /\ ret.op = "settings_blob_db_get_dirty_list"
  /\ ~s_initialized
  /\ ret.status = "NULL"
  /\ DirtyWhitelisted(file) # {}

(* C9: trigger() calls the Sync Engine only when the coordinator is          *)
(* initialized and Connected, and then once; before init(), after deinit() *)
(* or while Disconnected it makes no Sync Engine call and changes nothing: *)
(* the initialized flag, the connection state, the records and the sync in *)
(* flight are as before.                                                   *)
C9_TriggerGuarded ==
  [][ ret'.op = "prefs_sync_trigger"
      => /\ Len(ret'.sync) = (IF s_sync_initialized /\ s_is_connected THEN 1 ELSE 0)
         /\ UNCHANGED <<coord_vars, store_vars>>
         /\ ~(s_sync_initialized /\ s_is_connected) => UNCHANGED sync_session ]_vars

\* trigger() on an initialized, disconnected coordinator made no call while a
\* whitelisted record is dirty
C9_Witness ==
  /\ ret.op = "prefs_sync_trigger"
  /\ ret.sync = << >>
  /\ s_sync_initialized
  /\ ~s_is_connected
  /\ s_initialized
  /\ DirtyWhitelisted(file) # {}

C11_OneSyncOnConnect ==
  [][ (/\ ret'.op = "prv_connection_handler"
       /\ s_sync_initialized
       /\ ~s_is_connected
       /\ s_is_connected')
      => (/\ Len(ret'.sync) = 1
          /\ ret'.sync_db = <<[db_id |-> BlobDBIdSettings, is_connected |-> TRUE]>>) ]_vars

\* the handler connected the coordinator and its one call started a sync of
\* the dirty whitelisted records
C11_Witness ==
  /\ ret.op = "prv_connection_handler"
  /\ ret.is_open
  /\ s_sync_initialized
  /\ s_is_connected
  /\ ret.sync = <<"S_SUCCESS">>
  /\ ret.sync_db = <<[db_id |-> BlobDBIdSettings, is_connected |-> TRUE]>>
  /\ sync_session # << >>

(* C12: whatever status the Sync Engine returns, the handler and trigger()  *)
(* call it at most once (no retry), and what they leave behind does not    *)
(* depend on the status: the initialized flag and the subscription are as  *)
(* before, the connection state is the event's is_open (for trigger(), as  *)
(* before), and no record changes; a call answered with E_BUSY also leaves *)
(* the sync in flight as it was.                                           *)
C12_StatusIsInformational ==
  [][ ret'.op \in {"prv_connection_handler", "prefs_sync_trigger"}
      => (/\ Len(ret'.sync) <= 1
          /\ UNCHANGED <<s_sync_initialized, subscribed, store_vars>>
          /\ s_is_connected' = (IF ret'.op = "prv_connection_handler"
                                  THEN ret'.is_open ELSE s_is_connected)
          /\ ret'.sync = <<"E_BUSY">> => UNCHANGED sync_session) ]_vars

\* trigger() on a connected coordinator was answered E_BUSY while a sync was
\* in flight and a whitelisted record is dirty
C12_Witness ==
  /\ ret.op = "prefs_sync_trigger"
  /\ ret.sync = <<"E_BUSY">>
  /\ s_sync_initialized
  /\ s_is_connected
  /\ sync_session # << >>
  /\ DirtyWhitelisted(file) # {}

(* C13: mark_synced(k) is not gated on the whitelist: when the file holds a  *)
(* dirty record under k, whitelisted or not, and the open of the file does *)
(* not fail, mark_synced(k) opens the file, returns S_SUCCESS and clears   *)
(* the dirty flag of that record and of no other; key, value and timestamp *)
(* of every record stay as they were.                                      *)
C13_MarkSyncedUngated ==
  [][ (/\ ret'.op = "settings_blob_db_mark_synced"
       /\ s_initialized
       /\ ret'.trace # <<"open">>
       /\ HasKey(file, KeyOf(ret'.key, ret'.key_len))
       /\ RecordOf(file, KeyOf(ret'.key, ret'.key_len)).dirty)
      => (/\ ret'.status = "S_SUCCESS"
          /\ ret'.trace = <<"open", "mark_synced", "close">>
          /\ Len(file') = Len(file)
          /\ \A i \in 1..Len(file) :
               file'[i] = IF file[i].key = KeyOf(ret'.key, ret'.key_len)
                            THEN [file[i] EXCEPT !.dirty = FALSE]
                            ELSE file[i]) ]_vars

\* mark_synced("btAddress") succeeded: the record local code wrote under the
\* non-whitelisted key is clean, next to a whitelisted record that is dirty
C13_Witness ==
  /\ ret.op = "settings_blob_db_mark_synced"
  /\ ret.status = "S_SUCCESS"
  /\ ret.key = K_btAddress
  /\ ~InWhitelist(ret.key, ret.key_len)
  /\ HasKey(file, K_btAddress)
  /\ ~RecordOf(file, K_btAddress).dirty
  /\ DirtyWhitelisted(file) # {}

(* C14: read(k) and get_len(k) are not gated on the whitelist: on an        *)
(* initialized store, unless the open of the file fails, they open the     *)
(* file and, for a key that has a record, whitelisted or not, read gives   *)
(* S_SUCCESS with the stored value and get_len the length of that value;   *)
(* for a key without a record read gives E_DOES_NOT_EXIST and get_len 0,   *)
(* the record store's answers for a missing key. Neither changes a record. *)
C14_ReadUngated ==
  [][ ret'.op \in {"settings_blob_db_read", "settings_blob_db_get_len"}
      => (/\ file' = file
          /\ (s_initialized /\ ret'.trace # <<"open">>)
              => LET k == KeyOf(ret'.key, ret'.key_len)
                 IN  /\ Opened(ret')
                     /\ ret'.op = "settings_blob_db_read"
                         => IF HasKey(file, k)
                              THEN /\ ret'.status = "S_SUCCESS"
                                   /\ ret'.val_out = RecordOf(file, k).val
                              ELSE /\ ret'.status = "E_DOES_NOT_EXIST"
                                   /\ ret'.val_out = << >>
                     /\ ret'.op = "settings_blob_db_get_len"
                         => /\ ret'.status = "LEN"
                            /\ ret'.len = IF HasKey(file, k)
                                            THEN Len(RecordOf(file, k).val) ELSE 0) ]_vars

\* read("btAddress") returned the value local code stored under the
\* non-whitelisted key
C14_Witness ==
  /\ ret.op = "settings_blob_db_read"
  /\ ret.key = K_btAddress
  /\ ~InWhitelist(ret.key, ret.key_len)
  /\ ret.status = "S_SUCCESS"
  /\ HasKey(file, K_btAddress)
  /\ ret.val_out = RecordOf(file, K_btAddress).val
  /\ ret.val_out # << >>

(* C15: when the open of the file fails, every operation that needs the     *)
(* file (insert, delete, read, get_len, get_dirty_list, mark_synced,       *)
(* is_dirty) returns that failure status to its caller, after the one open *)
(* and no other record store call, and no record changes.                  *)
C15_OpenFailurePropagates ==
  [][ (/\ ret'.op \in {"settings_blob_db_insert", "settings_blob_db_delete",
                       "settings_blob_db_read", "settings_blob_db_get_len",
                       "settings_blob_db_get_dirty_list",
                       "settings_blob_db_mark_synced", "settings_blob_db_is_dirty"}
       /\ Len(ret'.trace) > 0
       /\ ~Opened(ret'))
      => (/\ ret'.trace = <<"open">>
          /\ ret'.status \in OpenErrors
          /\ file' = file) ]_vars

\* how many times a record store call appears in the trace of a public call
Count(trace, name) == Cardinality({ i \in 1..Len(trace) : trace[i] = name })

(* C16: the file is closed on every exit path: when a store operation       *)
(* returns, it has opened the file at most once, an open that succeeded    *)
(* (one followed by further record store calls) is matched by exactly one  *)
(* close, the last call made, and a call that did not open the file, or    *)
(* whose open failed, makes no close.                                      *)
C16_HandleReleased ==
  [][ ret'.op \in StoreOps
      => LET t == ret'.trace
         IN  /\ Count(t, "open") <= 1
             /\ t # << >> => t[1] = "open"
             /\ Len(t) <= 1 => Count(t, "close") = 0
             /\ Len(t) > 1 => (Count(t, "close") = 1 /\ t[Len(t)] = "close") ]_vars

\* insert on a full file: settings_file_set failed and the file was closed
C16_Witness ==
  /\ ret.op = "settings_blob_db_insert"
  /\ ret.status = "E_OUT_OF_STORAGE"
  /\ ret.trace = <<"open", "set", "close">>

(* C17, as stated: every store operation opens the file once and closes it  *)
(* once in each call.                                                      *)
C17_OpenCloseOnce ==
  [][ ret'.op \in StoreOps
      => (Count(ret'.trace, "open") = 1 /\ Count(ret'.trace, "close") = 1) ]_vars

(* C17, amended: a store operation opens the file at most once per call and *)
(* closes it once exactly when that open succeeded. It opens the file      *)
(* exactly when the store is initialized, the operation is not flush, and, *)
(* for insert and delete, the key is whitelisted; flush, a call before     *)
(* init() and a rejected insert or delete make no record store call.       *)
C17_OpenCloseAtMostOnce ==
  [][ ret'.op \in StoreOps
      => LET t == ret'.trace
             opens == /\ s_initialized
                      /\ ret'.op # "settings_blob_db_flush"
                      /\ ret'.op \in {"settings_blob_db_insert", "settings_blob_db_delete"}
                           => InWhitelist(ret'.key, ret'.key_len)
         IN  /\ Count(t, "open") = (IF opens THEN 1 ELSE 0)
             /\ ~opens => t = << >>
             /\ Count(t, "close") = (IF Opened(ret') THEN 1 ELSE 0) ]_vars

\* flush() succeeded on an initialized store that holds a dirty whitelisted
\* record, without a record store call
C17_Witness ==
  /\ ret.op = "settings_blob_db_flush"
  /\ ret.status = "S_SUCCESS"
  /\ ret.trace = << >>
  /\ s_initialized
  /\ DirtyWhitelisted(file) # {}

\* the keys of a dirty list, each with its last-modified time
ListEntries(list) == { <<list[i].key, list[i].last_updated>> : i \in 1..Len(list) }

(* C18: two get_dirty_list() calls on an initialized store whose file opens, *)
(* with no write in between, return equal results: a call that follows     *)
(* another directly returns the same list, every list holds the keys and   *)
(* last-modified times of the dirty whitelisted records and of nothing     *)
(* else, and the records change only in insert, delete, mark_synced and    *)
(* local writes; get_dirty_list and is_dirty change no record.             *)
C18_DirtyListRepeatable ==
  [][ /\ (/\ ret.op = "settings_blob_db_get_dirty_list" /\ Opened(ret)
          /\ ret'.op = "settings_blob_db_get_dirty_list" /\ Opened(ret'))
          => ret'.list = ret.list
      /\ (ret'.op = "settings_blob_db_get_dirty_list" /\ Opened(ret'))
          => ListEntries(ret'.list)
               = { <<r.key, r.last_modified>> :
                     r \in { q \in Records(file) : q.dirty /\ q.key \in WhitelistKeys } }
      /\ ret'.op \in {"settings_blob_db_get_dirty_list", "settings_blob_db_is_dirty"}
          => file' = file
      /\ file' # file
          => ret'.op \in {"settings_blob_db_insert", "settings_blob_db_delete",
                          "settings_blob_db_mark_synced", "prefs_local_write"} ]_vars

\* get_dirty_list() listed the two dirty whitelisted records, which are still
\* dirty in the file
C18_Witness ==
  /\ ret.op = "settings_blob_db_get_dirty_list"
  /\ Len(ret.list) = 2
  /\ ListKeys(ret.list) = DirtyWhitelisted(file)

(* C19: init() on an initialized coordinator changes nothing: the handler   *)
(* is not subscribed again and the connection state stays as it was, so    *)
(* there is never more than one subscription; deinit() on an uninitialized *)
(* coordinator changes nothing either and unsubscribes nothing.            *)
C19_InitDeinitIdempotent ==
  [][ /\ (ret'.op = "prefs_sync_init" /\ s_sync_initialized)
          => UNCHANGED <<coord_vars, store_vars, sync_session>>
      /\ (ret'.op = "prefs_sync_deinit" /\ ~s_sync_initialized)
          => UNCHANGED <<coord_vars, store_vars, sync_session>>
      /\ subscribed' \in {0, 1} ]_vars

\* init() returned on a coordinator that is Connected: it was initialized
\* before the call and kept its connection state and its one subscription
C19_Witness ==
  /\ ret.op = "prefs_sync_init"
  /\ s_sync_initialized
  /\ s_is_connected
  /\ subscribed = 1

\* the handler is subscribed exactly when the coordinator is initialized, and
\* an uninitialized coordinator is Disconnected
CoordInv ==
  /\ (subscribed > 0) <=> s_sync_initialized
  /\ ~s_sync_initialized => ~s_is_connected

(* C20: with events delivered only to a subscribed handler, in every state  *)
(* the handler is subscribed exactly when the coordinator is initialized   *)
(* and an uninitialized coordinator is Disconnected; the connection state  *)
(* of an initialized coordinator is the is_open of the last event since    *)
(* the latest init(), or Disconnected when there was none: an event sets   *)
(* it to its is_open, an init() that initializes and a deinit() set it to  *)
(* Disconnected, and no other step changes it, so the init() that follows  *)
(* a deinit() leaves the coordinator Disconnected.                         *)
C20_ConnectionStateTracksEvents ==
  [][ /\ CoordInv
      /\ CoordInv'
      /\ ret'.op = "prv_connection_handler"
          => (s_sync_initialized /\ s_is_connected' = ret'.is_open)
      /\ (ret'.op = "prefs_sync_init" /\ ~s_sync_initialized)
          => (s_sync_initialized' /\ ~s_is_connected')
      /\ ret'.op = "prefs_sync_deinit"
          => (~s_sync_initialized' /\ ~s_is_connected')
      /\ (ret.op = "prefs_sync_deinit" /\ ret'.op = "prefs_sync_init")
          => (s_sync_initialized' /\ ~s_is_connected')
      /\ ~(\/ ret'.op = "prv_connection_handler"
           \/ ret'.op = "prefs_sync_deinit"
           \/ (ret'.op = "prefs_sync_init" /\ ~s_sync_initialized))
          => UNCHANGED <<s_sync_initialized, s_is_connected, subscribed>> ]_vars

\* init() after a deinit(): the coordinator is Disconnected although the sync
\* that an earlier connect event started is still in flight
C20_Witness ==
  /\ ret.op = "prefs_sync_init"
  /\ s_sync_initialized
  /\ subscribed = 1
  /\ ~s_is_connected
  /\ sync_session # << >>

(* C21: in a sync round (a snapshot of the dirty list, then mark_synced for *)
(* each item of the snapshot) a whitelisted insert that another caller     *)
(* makes after the snapshot and before the marks is not lost, whatever its *)
(* key: the record it wrote is still dirty when the round's next mark has  *)
(* run, so that the next get_dirty_list() returns it.                      *)
C21_InsertDuringRoundNotLost ==
  [][ (/\ ret.op = "settings_blob_db_insert"
       /\ ret.status = "S_SUCCESS"
       /\ sync_session # << >>
       /\ ret'.op = "blob_db_sync_next")
      => LET k == KeyOf(ret.key, ret.key_len)
         IN  /\ HasKey(file', k)
             /\ RecordOf(file', k).dirty
             /\ k \in ListKeys(DirtyListOf(file')) ]_vars

(* C22: in any sequence of store and coordinator operations, the dirty flag *)
(* of a record that stays in the file goes from set to cleared only in a   *)
(* successful mark_synced call for that record's key, made by a caller or  *)
(* by the sync engine; no other operation, connectivity event or trigger() *)
(* clears a dirty flag, and after every successful insert the record under *)
(* the inserted key is dirty.                                              *)
C22_DirtyClearedOnlyByMarkSynced ==
  [][ /\ (file' # file)
          => \A k \in FileKeys :
               (/\ HasKey(file, k) /\ RecordOf(file, k).dirty
                /\ HasKey(file', k) /\ ~RecordOf(file', k).dirty)
               => (/\ ret'.op \in {"settings_blob_db_mark_synced", "blob_db_sync_next"}
                   /\ ret'.status = "S_SUCCESS"
                   /\ KeyOf(ret'.key, ret'.key_len) = k)
      /\ (ret'.op = "settings_blob_db_insert" /\ ret'.status = "S_SUCCESS")
          => (/\ HasKey(file', KeyOf(ret'.key, ret'.key_len))
              /\ RecordOf(file', KeyOf(ret'.key, ret'.key_len)).dirty) ]_vars

\* an insert succeeded next to a record that a mark_synced had cleared: the
\* inserted record is dirty, the other one is still clean
C22_Witness ==
  /\ ret.op = "settings_blob_db_insert"
  /\ ret.status = "S_SUCCESS"
  /\ Len(file) = 2
  /\ RecordOf(file, KeyOf(ret.key, ret.key_len)).dirty
  /\ \E i \in 1..Len(file) : ~file[i].dirty

(* C23: in every state of an initialized store, when the file opens,        *)
(* is_dirty() and get_dirty_list() agree: is_dirty() reports true exactly  *)
(* when get_dirty_list() on the same records returns a non-empty list.     *)
C23_IsDirtyAgreesWithList ==
  s_initialized
    => LET d == is_dirty_result(s_initialized, file, "S_SUCCESS")
           l == get_dirty_list_result(s_initialized, file, "S_SUCCESS")
       IN  /\ d.status = "S_SUCCESS"
           /\ d.is_dirty_out <=> (l.list # << >>)

\* get_dirty_list() returned one item from a file whose first record is dirty
\* and not whitelisted, and is_dirty() on these records reports true
C23_Witness ==
  /\ s_initialized
  /\ ret.op = "settings_blob_db_get_dirty_list"
  /\ Len(ret.list) = 1
  /\ Len(file) = 2
  /\ file[1].dirty /\ file[1].key \notin WhitelistKeys
  /\ is_dirty_result(s_initialized, file, "S_SUCCESS").is_dirty_out

(* C24: the whitelist check accepts (key, key_len) exactly when key_len is  *)
(* the length of a whitelisted name plus one and the first key_len bytes   *)
(* of key are that name followed by its NUL terminator. A whitelisted name *)
(* without the terminator, a strict prefix or an extension of a name, and  *)
(* any key with key_len <= 0 are rejected, and the answer for a key is the *)
(* same in every state of the program.                                     *)
C24_WhitelistExact ==
  [][ ret'.op = "prv_is_syncable"
      => LET key == ret'.key
             key_len == ret'.key_len
             named == \E i \in 1..s_num_syncable_settings :
                        /\ key_len = Len(s_syncable_settings[i]) + 1
                        /\ key_len <= Len(key)
                        /\ SubSeq(key, 1, key_len) = s_syncable_settings[i] \o <<0>>
         IN  /\ (ret'.status = "true") <=> named
             /\ <<key, key_len>> \in SyncableArgs => ret'.status = "true"
             /\ <<key, key_len>> \in UnterminatedArgs \cup PrefixArgs \cup ExtensionArgs
                  => ret'.status = "false"
             /\ key_len <= 0 => ret'.status = "false"
             /\ UNCHANGED <<store_vars, coord_vars, sync_session>> ]_vars

\* "clock24h" without its terminator was rejected on an initialized store
\* whose file holds records
C24_Witness ==
  /\ ret.op = "prv_is_syncable"
  /\ ret.key = <<99,108,111,99,107,50,52,104>>
  /\ ret.key_len = 8
  /\ ret.status = "false"
  /\ s_initialized
  /\ Len(file) = 2
====
